---- MODULE Spec2Model ----
(***************************************************************************)
(* Model of docker/db/import_data.py: the Madison IoT spreadsheet importer. *)
(* One run of the script is a sequential walk through __main__,             *)
(* import_all_data, the three per-type importers and verify_import; the     *)
(* database (sensor registry, three reading tables, the open transaction)   *)
(* and the spreadsheet on disk outlive a run, so a run may be followed by   *)
(* another invocation of the script.                                        *)
(***************************************************************************)
EXTENDS Integers, Sequences, FiniteSets, TLC

(***************************************************************************)
(* Bounds of the model: rows of a sheet of mixed timestamps, rows of a      *)
(* sheet of distinct timestamps, --batch-size (from 1: the script is run    *)
(* with a positive batch size), sheets of a several-sheet file, invocations *)
(* of the script, and statements the database fails.                        *)
(***************************************************************************)
MaxRows == 3
MaxLong == 5
MaxBatch == 2
MaxSheets == 2
MaxRuns == 2
MaxFaults == 1

(***************************************************************************)
(* Static tables of the script.                                             *)
(***************************************************************************)
SENSOR_MAPPING ==
    [n \in {"Sensor c1", "Sensor s1", "Sensor s2", "Sensor s3", "Sensor s4",
            "Sensor s5", "Sensor t1", "Sensor t2", "Sensor t3", "Sensor t4",
            "Sensor t5"} |->
        CASE n = "Sensor c1" -> [sensor_code |-> "c1", sensor_type |-> "current"]
          [] n = "Sensor s1" -> [sensor_code |-> "s1", sensor_type |-> "environmental"]
          [] n = "Sensor s2" -> [sensor_code |-> "s2", sensor_type |-> "environmental"]
          [] n = "Sensor s3" -> [sensor_code |-> "s3", sensor_type |-> "environmental"]
          [] n = "Sensor s4" -> [sensor_code |-> "s4", sensor_type |-> "environmental"]
          [] n = "Sensor s5" -> [sensor_code |-> "s5", sensor_type |-> "environmental"]
          [] n = "Sensor t1" -> [sensor_code |-> "t1", sensor_type |-> "temperature"]
          [] n = "Sensor t2" -> [sensor_code |-> "t2", sensor_type |-> "temperature"]
          [] n = "Sensor t3" -> [sensor_code |-> "t3", sensor_type |-> "temperature"]
          [] n = "Sensor t4" -> [sensor_code |-> "t4", sensor_type |-> "temperature"]
          [] OTHER           -> [sensor_code |-> "t5", sensor_type |-> "temperature"]]

Importers == {"import_current_sensor", "import_environmental_sensor",
              "import_temperature_sensor"}

Tables == {"iot.current_readings", "iot.environmental_readings",
           "iot.temperature_readings"}

\* The numeric columns each importer reads, in tuple order, with the cast
\* applied to each (float(...) or int(...)).
Columns(f) ==
    CASE f = "import_current_sensor" ->
            <<"float", "float", "float", "float", "float">>
      [] f = "import_environmental_sensor" ->
            <<"int", "int", "int", "int", "int", "float", "int">>
      [] OTHER ->
            <<"int", "float", "int">>

\* The table named in each importer's INSERT statement.
InsertTable(f) ==
    CASE f = "import_current_sensor" -> "iot.current_readings"
      [] f = "import_environmental_sensor" -> "iot.environmental_readings"
      [] OTHER -> "iot.temperature_readings"

\* Mutant: the environmental branch calls the temperature importer.
ImporterForSwapped(sensor_type) ==
    IF sensor_type = "current" THEN "import_current_sensor"
    ELSE "import_temperature_sensor"

\* The if/elif chain of import_all_data.  "none" when no branch matches.
ImporterFor(sensor_type) ==
    IF sensor_type = "current" THEN "import_current_sensor"
    ELSE IF sensor_type = "environmental" THEN "import_environmental_sensor"
    ELSE IF sensor_type = "temperature" THEN "import_temperature_sensor"
    ELSE "none"

(***************************************************************************)
(* Cell values.  A number is held in tenths (15 is 1.5) so that int() and   *)
(* float() differ.                                                          *)
(***************************************************************************)
NaN == [kind |-> "nan", v |-> 0]
Text == [kind |-> "text", v |-> 0]
Num(x) == [kind |-> "num", v |-> x]
Ts(t) == [kind |-> "ts", v |-> t]
BadTs == [kind |-> "bad", v |-> 0]
None == [kind |-> "none", v |-> 0]

pd_notna(cell) == cell.kind # "nan"

\* int(x): truncation toward zero.
py_int(cell) ==
    [kind |-> "int",
     v |-> IF cell.v >= 0 THEN (cell.v \div 10) * 10
           ELSE 0 - (((0 - cell.v) \div 10) * 10)]

py_float(cell) == [kind |-> "float", v |-> cell.v]

\* int("abc") / float("abc") raise ValueError.
CastRaises(cell) == cell.kind = "text"

\* Mutant: an absent cell becomes a zero instead of None.
CastFieldNaNAsZero(cast, cell) ==
    IF cast = "int" THEN py_int([cell EXCEPT !.v = IF pd_notna(cell) THEN @ ELSE 0])
    ELSE py_float([cell EXCEPT !.v = IF pd_notna(cell) THEN @ ELSE 0])

\* <cast>(row[col]) if pd.notna(row[col]) else None
CastField(cast, cell) ==
    IF pd_notna(cell)
    THEN (IF cast = "int" THEN py_int(cell) ELSE py_float(cell))
    ELSE None

\* Mutant: an unparseable timestamp is passed on instead of signalled.
parse_timestamp_keeps_bad(cell) == Ts(cell.v)

\* pd.to_datetime in a try/except: None when it raises.
parse_timestamp(cell) ==
    IF cell.kind = "ts" THEN Ts(cell.v) ELSE None

\* Does building the tuple for this row raise?
RowRaises(f, row) ==
    \E i \in 1..Len(Columns(f)) :
        pd_notna(row.cells[i]) /\ CastRaises(row.cells[i])

\* The tuple appended to data for a row whose timestamp parsed.
RowTuple(f, timestamp, sid, row) ==
    <<timestamp.v, sid>> \o
    [i \in 1..Len(Columns(f)) |-> CastField(Columns(f)[i], row.cells[i])]

(***************************************************************************)
(* The database: three reading tables with a uniqueness constraint on       *)
(* (time, sensor_id), and the rows written by the open transaction.         *)
(***************************************************************************)
EmptyTables == [t \in Tables |-> <<>>]

Key(r) == <<r[1], r[2]>>

HasKey(rows, k) == \E i \in 1..Len(rows) : Key(rows[i]) = k

\* Mutant: a plain INSERT, without ON CONFLICT DO NOTHING, into a table that
\* does not reject the duplicate.
InsertAlways(d, t, r) ==
    [d EXCEPT !.pending[t] = Append(@, r)]

\* INSERT INTO <t> ... VALUES (...) ON CONFLICT DO NOTHING, for one tuple.
InsertOnConflictDoNothing(d, t, r) ==
    IF HasKey(d.tables[t] \o d.pending[t], Key(r))
    THEN d
    ELSE [d EXCEPT !.pending[t] = Append(@, r)]

\* execute_batch(cursor, insert_query, rows, page_size): every tuple in order.
RECURSIVE execute_batch(_, _, _)
execute_batch(d, t, rows) ==
    IF rows = <<>> THEN d
    ELSE execute_batch(InsertOnConflictDoNothing(d, t, Head(rows)), t, Tail(rows))

\* conn.commit()
commit(d) ==
    [tables |-> [t \in Tables |-> d.tables[t] \o d.pending[t]],
     pending |-> EmptyTables]

\* Mutant: the failure handler commits what the transaction holds.
rollback_persists(d) == commit(d)

\* conn.rollback()
rollback(d) == [d EXCEPT !.pending = EmptyTables]

\* Mutant: close() leaves the connection open.
close_leaks(n) == n

\* conn.close(), on the count of open connections.
close(n) == n - 1

\* The sensor registry iot.sensors.
AllSensors ==
    {[sensor_id |-> 1, sensor_code |-> "c1"],
     [sensor_id |-> 2, sensor_code |-> "s1"], [sensor_id |-> 3, sensor_code |-> "s2"],
     [sensor_id |-> 4, sensor_code |-> "s3"], [sensor_id |-> 5, sensor_code |-> "s4"],
     [sensor_id |-> 6, sensor_code |-> "s5"],
     [sensor_id |-> 7, sensor_code |-> "t1"], [sensor_id |-> 8, sensor_code |-> "t2"],
     [sensor_id |-> 9, sensor_code |-> "t3"], [sensor_id |-> 10, sensor_code |-> "t4"],
     [sensor_id |-> 11, sensor_code |-> "t5"]}

\* get_sensor_id: the id of the matching registry row, 0 standing for the
\* ValueError raised when fetchone() returns nothing.
get_sensor_id(registry, sensor_code) ==
    IF \E s \in registry : s.sensor_code = sensor_code
    THEN (CHOOSE s \in registry : s.sensor_code = sensor_code).sensor_id
    ELSE 0

\* The four statements of verify_import, in order.
CountQueries ==
    <<"SELECT COUNT(*) FROM iot.sensors",
      "SELECT COUNT(*) FROM iot.current_readings",
      "SELECT COUNT(*) FROM iot.environmental_readings",
      "SELECT COUNT(*) FROM iot.temperature_readings">>

\* What the i-th count query returns: it sees committed rows only.
CountResult(registry, d, i) ==
    CASE i = 1 -> Cardinality(registry)
      [] i = 2 -> Len(d.tables["iot.current_readings"])
      [] i = 3 -> Len(d.tables["iot.environmental_readings"])
      [] OTHER -> Len(d.tables["iot.temperature_readings"])

\* Mutant: the threshold test is off by one.
ShouldFlushLate(buf, batch_size) == Len(buf) > batch_size

\* if len(data) >= batch_size
ShouldFlush(buf, batch_size) == Len(buf) >= batch_size

\* Mutant: the remainder is never flushed.
HasRemainderNever(buf) == FALSE

\* if data   (after the loop)
HasRemainder(buf) == buf # <<>>

\* Mutant: --verify-only is ignored.
MainBranchIgnoresFlag(verify_only) == "check_file"

\* if args.verify_only: ... else: import_all_data(...)
MainBranch(verify_only) ==
    IF verify_only THEN "verify_connect" ELSE "check_file"

\* Mutant: the failure handler exits with status 0.
ExceptExitOk == 1 - 1

\* sys.exit(1) in the failure handler.
ExceptExit == 1

(***************************************************************************)
(* Inputs: the spreadsheet on disk, the command line, the sensor registry.  *)
(***************************************************************************)
SeqsUpTo(S, n) == UNION {[1..k -> S] : k \in 0..n}

\* The shape of a sheet's numeric columns follows the sheet's sensor type; a
\* sheet with an unrecognized name is given the temperature shape.
ShapeOf(name) ==
    IF name \in DOMAIN SENSOR_MAPPING
    THEN ImporterFor(SENSOR_MAPPING[name].sensor_type)
    ELSE "import_temperature_sensor"

PlainCells(f) == [i \in 1..Len(Columns(f)) |-> Num(15)]

\* Two times, so that rows of a sheet can collide, and a cell that does not
\* parse.
TsCells == {Ts(1), Ts(2), BadTs}

CellValues == {NaN, Text, Num(0), Num(15), Num(0 - 15)}

TypicalNames == {"Sensor c1", "Sensor s1", "Sensor t1"}

UnknownName == "Sensor unknown9"

\* One sheet of up to MaxRows rows: any mix of timestamps, plain numbers.
BatchFiles ==
    UNION {{<<[name |-> n, rows |-> r]>> :
              r \in SeqsUpTo({[ts |-> c, cells |-> PlainCells(ShapeOf(n))] :
                                c \in TsCells}, MaxRows)} :
           n \in TypicalNames}

\* One sheet of up to MaxLong rows with distinct times and plain numbers, at
\* most one of them (row j) with a timestamp that does not parse.
LongFiles ==
    UNION {{<<[name |-> n,
               rows |-> [i \in 1..len |->
                           [ts |-> IF i = j THEN BadTs ELSE Ts(i),
                            cells |-> PlainCells(ShapeOf(n))]]]>> :
              len \in 0..MaxLong, j \in 0..MaxLong} :
           n \in TypicalNames}

\* One sheet of one row: every column holds b but one, which holds c.
CastFiles ==
    UNION {{<<[name |-> n,
               rows |-> <<[ts |-> Ts(1),
                           cells |-> [i \in 1..Len(Columns(ShapeOf(n))) |->
                                         IF i = k THEN c ELSE b]]>>]>> :
              k \in 1..Len(Columns(ShapeOf(n))), c \in CellValues,
              b \in CellValues} :
           n \in TypicalNames}

\* The contents a sheet of a several-sheet file may have: one row, its
\* numbers plain or its first numeric cell a text.
SheetOf(n, choice) ==
    [name |-> n,
     rows |-> IF choice = 1
              THEN <<[ts |-> Ts(1), cells |-> PlainCells(ShapeOf(n))]>>
              ELSE <<[ts |-> Ts(1),
                      cells |-> [PlainCells(ShapeOf(n)) EXCEPT ![1] = Text]]>>]

Injective(s) == \A i, j \in 1..Len(s) : s[i] = s[j] => i = j

\* Up to MaxSheets sheets with distinct names, and every name on its own.
RunFiles ==
    UNION {{[i \in 1..Len(ns) |-> SheetOf(ns[i], ch[i])] :
              ch \in [1..Len(ns) -> 1..2]} :
           ns \in {s \in SeqsUpTo(TypicalNames \cup {UnknownName}, MaxSheets) :
                      Injective(s)}
                  \cup {<<n>> : n \in DOMAIN SENSOR_MAPPING}}

Cases ==
    [sheets : BatchFiles, status : {"ok"}, batch_size : 1..MaxBatch,
     verify_only : {FALSE}, sensors : {AllSensors}]
    \cup
    [sheets : LongFiles, status : {"ok"}, batch_size : 1..MaxBatch,
     verify_only : {FALSE}, sensors : {AllSensors}]
    \cup
    [sheets : CastFiles, status : {"ok"}, batch_size : {1, MaxBatch},
     verify_only : {FALSE}, sensors : {AllSensors}]
    \cup
    [sheets : RunFiles, status : {"ok"}, batch_size : {1},
     verify_only : BOOLEAN,
     sensors : {AllSensors, {s \in AllSensors : s.sensor_code # "t1"}}]
    \cup
    [sheets : {<<>>}, status : {"missing", "corrupt"}, batch_size : {1},
     verify_only : BOOLEAN, sensors : {AllSensors}]

(***************************************************************************)
(* State.                                                                   *)
(***************************************************************************)
VARIABLES
    disk,           \* the spreadsheet: [status, sheets]
    args,           \* the parsed command line: [batch_size, verify_only]
    sensors,        \* iot.sensors
    db,             \* [tables, pending]: committed rows, rows of the open transaction
    pc,             \* position of the script
    fn,             \* the importer being executed
    failure,        \* the error that ended or is ending the run, "none" if none
    exit_status,    \* the process's exit status, -1 while it runs
    connOpen,       \* connections currently open
    sheet,          \* position of the sheet loop in xls.sheet_names
    idx,            \* rows of df already iterated
    data,           \* the batch buffer
    skipped,        \* the importer's skip counter
    sensor_id,      \* the importer's sensor_id
    total_rows,     \* import_all_data's total
    report,         \* the counts verify_import has fetched
    \* history of the current run
    opened,         \* connections opened
    fileOpened,     \* the spreadsheet was opened
    sheetsRead,     \* sheet names passed to read_excel, in order
    calls,          \* importer calls, in order
    issued,         \* statements sent to the database
    flushed,        \* batches flushed by the current importer call, in order
    completed,      \* the success summary was printed
    lastCommitted,  \* the tables as of the last commit (or the start of the run)
    base,           \* the tables at the start of the run
    \* history across runs
    run,            \* number of the current invocation
    importedBefore, \* an earlier invocation imported this file completely
    faults          \* database faults so far

vars == <<disk, args, sensors, db, pc, fn, failure, exit_status, connOpen, sheet,
          idx, data, skipped, sensor_id, total_rows, report, opened, fileOpened,
          sheetsRead, calls, issued, flushed, completed, lastCommitted, base, run,
          importedBefore, faults>>

env == <<disk, args, sensors, run, importedBefore, base>>
locals == <<sheet, idx, data, skipped, sensor_id, total_rows, fn>>
hist == <<fileOpened, sheetsRead, calls, flushed, completed>>

df == disk.sheets[sheet].rows

Init ==
    /\ \E c \in Cases :
        /\ disk = [status |-> c.status, sheets |-> c.sheets]
        /\ args = [batch_size |-> c.batch_size, verify_only |-> c.verify_only]
        /\ sensors = c.sensors
    /\ db = [tables |-> EmptyTables, pending |-> EmptyTables]
    /\ pc = "main"
    /\ fn = "none"
    /\ failure = "none"
    /\ exit_status = -1
    /\ connOpen = 0
    /\ sheet = 0
    /\ idx = 0
    /\ data = <<>>
    /\ skipped = 0
    /\ sensor_id = 0
    /\ total_rows = 0
    /\ report = <<>>
    /\ opened = 0
    /\ fileOpened = FALSE
    /\ sheetsRead = <<>>
    /\ calls = <<>>
    /\ issued = {}
    /\ flushed = <<>>
    /\ completed = FALSE
    /\ lastCommitted = EmptyTables
    /\ base = EmptyTables
    /\ run = 1
    /\ importedBefore = FALSE
    /\ faults = 0

(***************************************************************************)
(* __main__                                                                 *)
(***************************************************************************)
main ==
    /\ pc = "main"
    /\ pc' = MainBranch(args.verify_only)
    /\ UNCHANGED <<env, locals, hist, db, failure, exit_status, connOpen, report,
                   opened, issued, lastCommitted, faults>>

\* import_all_data up to the connection: the file check and pd.ExcelFile.
import_all_data_open ==
    /\ pc = "check_file"
    /\ CASE disk.status = "missing" ->
              /\ pc' = "exit" /\ exit_status' = 1 /\ failure' = "MissingFile"
              /\ UNCHANGED fileOpened
         [] disk.status = "corrupt" ->
              /\ pc' = "exit" /\ exit_status' = 1 /\ failure' = "ExcelError"
              /\ fileOpened' = TRUE
         [] OTHER ->
              /\ pc' = "connect" /\ fileOpened' = TRUE
              /\ UNCHANGED <<exit_status, failure>>
    /\ UNCHANGED <<env, locals, db, connOpen, report, opened, sheetsRead, calls,
                   issued, flushed, completed, lastCommitted, faults>>

\* connect_db, called by import_all_data (which then sets total_rows = 0 and
\* enters the sheet loop) and by __main__ before verify_import.
connect_db ==
    /\ pc \in {"connect", "verify_connect"}
    /\ \E ok \in BOOLEAN :
        IF ok
        THEN /\ connOpen' = connOpen + 1
             /\ opened' = opened + 1
             /\ pc' = IF pc = "connect" THEN "sheets" ELSE "verify"
             /\ sheet' = IF pc = "connect" THEN 1 ELSE sheet
             /\ total_rows' = IF pc = "connect" THEN 0 ELSE total_rows
             /\ UNCHANGED <<exit_status, failure>>
        ELSE /\ pc' = "exit" /\ exit_status' = 1 /\ failure' = "ConnectError"
             /\ UNCHANGED <<connOpen, opened, sheet, total_rows>>
    /\ UNCHANGED <<env, hist, db, idx, data, skipped, sensor_id, fn, report, issued,
                   lastCommitted, faults>>

\* import_all_data: one pass of the sheet loop, up to the importer call.
import_all_data_sheets ==
    /\ pc = "sheets"
    /\ IF sheet > Len(disk.sheets)
       THEN /\ pc' = "summary"
            /\ UNCHANGED <<sheet, total_rows, fn, sheetsRead, calls, flushed>>
       ELSE LET sheet_name == disk.sheets[sheet].name IN
            IF sheet_name \notin DOMAIN SENSOR_MAPPING
            THEN /\ sheet' = sheet + 1
                 /\ UNCHANGED <<pc, total_rows, fn, sheetsRead, calls, flushed>>
            ELSE LET sensor_info == SENSOR_MAPPING[sheet_name]
                     f == ImporterFor(sensor_info.sensor_type)
                 IN  /\ sheetsRead' = Append(sheetsRead, sheet_name)
                     /\ total_rows' = total_rows + Len(df)
                     /\ IF f \in Importers
                        THEN /\ fn' = f
                             /\ pc' = "enter"
                             /\ calls' = Append(calls,
                                    [fn |-> f, sheet_name |-> sheet_name,
                                     sensor_code |-> sensor_info.sensor_code,
                                     sheet |-> sheet, returned |-> FALSE])
                             /\ flushed' = <<>>
                             /\ UNCHANGED sheet
                        ELSE /\ sheet' = sheet + 1
                             /\ UNCHANGED <<fn, pc, calls, flushed>>
    /\ UNCHANGED <<env, db, failure, exit_status, connOpen, idx, data, skipped,
                   sensor_id, report, opened, fileOpened, issued, completed,
                   lastCommitted, faults>>

(***************************************************************************)
(* The per-type importers.  The three functions differ in the columns they  *)
(* read and the table they write; Importer(f) is the body they share.       *)
(***************************************************************************)
InsertStatement(f) ==
    CASE f = "import_current_sensor" ->
            "INSERT INTO iot.current_readings ON CONFLICT DO NOTHING"
      [] f = "import_environmental_sensor" ->
            "INSERT INTO iot.environmental_readings ON CONFLICT DO NOTHING"
      [] OTHER ->
            "INSERT INTO iot.temperature_readings ON CONFLICT DO NOTHING"

\* execute_batch(...); conn.commit() on buf.  The database may fail the batch
\* after k of its tuples; k = Len(buf) is the batch going through.
Flush(f, buf, cleared, next_pc, next_sheet) ==
    \E k \in 0..Len(buf) :
        /\ k = Len(buf) \/ faults < MaxFaults
        /\ issued' = issued \cup
              {InsertStatement(f)} \cup (IF k = Len(buf) THEN {"COMMIT"} ELSE {})
        /\ IF k = Len(buf)
           THEN /\ db' = commit(execute_batch(db, InsertTable(f), buf))
                /\ lastCommitted' = db'.tables
                /\ flushed' = Append(flushed, buf)
                /\ data' = cleared
                /\ pc' = next_pc
                /\ sheet' = next_sheet
                /\ UNCHANGED <<failure, faults>>
           ELSE /\ db' = execute_batch(db, InsertTable(f), SubSeq(buf, 1, k))
                /\ failure' = "execute_batch: DatabaseError"
                /\ faults' = faults + 1
                /\ pc' = "except"
                /\ data' = buf
                /\ UNCHANGED <<lastCommitted, flushed, sheet>>

ImporterEnter(f) ==
    /\ pc = "enter"
    /\ LET sid == get_sensor_id(sensors, calls[Len(calls)].sensor_code) IN
        /\ issued' = issued \cup {"SELECT sensor_id FROM iot.sensors"}
        /\ IF sid # 0
           THEN /\ sensor_id' = sid
                /\ data' = <<>>
                /\ skipped' = 0
                /\ idx' = 0
                /\ pc' = "loop"
                /\ UNCHANGED failure
           ELSE /\ failure' = "get_sensor_id: ValueError"
                /\ pc' = "except"
                /\ UNCHANGED <<sensor_id, data, skipped, idx>>
    /\ UNCHANGED <<db, lastCommitted, faults, sheet, calls, flushed>>

ImporterRow(f) ==
    /\ pc = "loop"
    /\ idx < Len(df)
    /\ LET row == df[idx + 1]
           timestamp == parse_timestamp(row.ts)
       IN  IF timestamp = None
           THEN /\ skipped' = skipped + 1
                /\ idx' = idx + 1
                /\ UNCHANGED <<data, db, pc, failure, issued, flushed,
                               lastCommitted, faults, sheet>>
           ELSE IF RowRaises(f, row)
           THEN /\ failure' = "cast: ValueError"
                /\ pc' = "except"
                /\ UNCHANGED <<skipped, idx, data, db, issued, flushed,
                               lastCommitted, faults, sheet>>
           ELSE LET buf == Append(data, RowTuple(f, timestamp, sensor_id, row)) IN
                /\ idx' = idx + 1
                /\ UNCHANGED skipped
                /\ IF ShouldFlush(buf, args.batch_size)
                   THEN Flush(f, buf, <<>>, "loop", sheet)
                   ELSE /\ data' = buf
                        /\ UNCHANGED <<db, pc, failure, issued, flushed,
                                       lastCommitted, faults, sheet>>
    /\ UNCHANGED <<sensor_id, calls>>

\* After the loop: the remainder, the prints, cursor.close(), return.
ImporterTail(f) ==
    /\ pc = "loop"
    /\ idx = Len(df)
    /\ IF HasRemainder(data)
       THEN Flush(f, data, data, "sheets", sheet + 1)
       ELSE /\ pc' = "sheets"
            /\ sheet' = sheet + 1
            /\ UNCHANGED <<data, db, failure, issued, flushed, lastCommitted, faults>>
    /\ calls' = IF pc' = "sheets"
                THEN [calls EXCEPT ![Len(calls)].returned = TRUE]
                ELSE calls
    /\ UNCHANGED <<sensor_id, skipped, idx>>

Importer(f) ==
    /\ \/ ImporterEnter(f)
       \/ ImporterRow(f)
       \/ ImporterTail(f)
    /\ UNCHANGED <<env, fn, total_rows, exit_status, connOpen, report, opened,
                   fileOpened, sheetsRead, completed>>

import_current_sensor ==
    /\ fn = "import_current_sensor"
    /\ Importer("import_current_sensor")

import_environmental_sensor ==
    /\ fn = "import_environmental_sensor"
    /\ Importer("import_environmental_sensor")

import_temperature_sensor ==
    /\ fn = "import_temperature_sensor"
    /\ Importer("import_temperature_sensor")

\* import_all_data: the summary after the loop.  total_rows / duration raises
\* ZeroDivisionError when the two clock readings are equal.
import_all_data_summary ==
    /\ pc = "summary"
    /\ \E duration_zero \in BOOLEAN :
        IF duration_zero
        THEN /\ failure' = "ZeroDivisionError"
             /\ pc' = "except"
             /\ UNCHANGED completed
        ELSE /\ completed' = TRUE
             /\ pc' = "finally"
             /\ UNCHANGED failure
    /\ UNCHANGED <<env, locals, db, exit_status, connOpen, report, opened,
                   fileOpened, sheetsRead, calls, issued, flushed, lastCommitted,
                   faults>>

\* import_all_data: except Exception: ... conn.rollback(); sys.exit(1)
import_all_data_except ==
    /\ pc = "except"
    /\ db' = rollback(db)
    /\ issued' = issued \cup {"ROLLBACK"}
    /\ exit_status' = ExceptExit
    /\ pc' = "finally"
    /\ UNCHANGED <<env, locals, hist, failure, connOpen, report, opened,
                   lastCommitted, faults>>

\* import_all_data: finally: conn.close().  Closing discards what the
\* connection's transaction still holds; then the pending exit, or the return.
import_all_data_finally ==
    /\ pc = "finally"
    /\ connOpen' = close(connOpen)
    /\ db' = [db EXCEPT !.pending = EmptyTables]
    /\ pc' = IF failure # "none" THEN "exit" ELSE "verify_connect"
    /\ UNCHANGED <<env, locals, hist, failure, exit_status, report, opened, issued,
                   lastCommitted, faults>>

\* verify_import: four count queries; a query that fails raises out of
\* __main__, which has no handler: the process ends with status 1.
verify_import ==
    /\ pc = "verify"
    /\ \E k \in 0..Len(CountQueries) :
        /\ k = Len(CountQueries) \/ faults < MaxFaults
        /\ report' = [i \in 1..k |-> CountResult(sensors, db, i)]
        /\ issued' = issued \cup
              {CountQueries[i] : i \in 1..(IF k < Len(CountQueries) THEN k + 1 ELSE k)}
        /\ IF k = Len(CountQueries)
           THEN /\ pc' = "main_close"
                /\ UNCHANGED <<failure, exit_status, faults>>
           ELSE /\ failure' = "verify_import: DatabaseError"
                /\ faults' = faults + 1
                /\ exit_status' = 1
                /\ pc' = "exit"
    /\ UNCHANGED <<env, locals, hist, db, connOpen, opened, lastCommitted>>

\* __main__: conn.close() after verify_import, and the end of the script.
main_close ==
    /\ pc = "main_close"
    /\ connOpen' = close(connOpen)
    /\ exit_status' = 0
    /\ pc' = "exit"
    /\ UNCHANGED <<env, locals, hist, db, failure, report, opened, issued,
                   lastCommitted, faults>>

\* The script is invoked again on the same file and database.  The process
\* that ended took its connection and its open transaction with it.
Invoke ==
    /\ pc = "exit"
    /\ run < MaxRuns
    /\ \E v \in BOOLEAN : args' = [args EXCEPT !.verify_only = v]
    /\ run' = run + 1
    /\ importedBefore' = (importedBefore \/ completed)
    /\ db' = [db EXCEPT !.pending = EmptyTables]
    /\ base' = db.tables
    /\ lastCommitted' = db.tables
    /\ pc' = "main"
    /\ fn' = "none"
    /\ failure' = "none"
    /\ exit_status' = -1
    /\ connOpen' = 0
    /\ sheet' = 0
    /\ idx' = 0
    /\ data' = <<>>
    /\ skipped' = 0
    /\ sensor_id' = 0
    /\ total_rows' = 0
    /\ report' = <<>>
    /\ opened' = 0
    /\ fileOpened' = FALSE
    /\ sheetsRead' = <<>>
    /\ calls' = <<>>
    /\ issued' = {}
    /\ flushed' = <<>>
    /\ completed' = FALSE
    /\ UNCHANGED <<disk, sensors, faults>>

Next ==
    \/ main
    \/ import_all_data_open
    \/ connect_db
    \/ import_all_data_sheets
    \/ import_current_sensor
    \/ import_environmental_sensor
    \/ import_temperature_sensor
    \/ import_all_data_summary
    \/ import_all_data_except
    \/ import_all_data_finally
    \/ verify_import
    \/ main_close
    \/ Invoke

Spec == Init /\ [][Next]_vars

(***************************************************************************)
(* Vocabulary of the properties.                                            *)
(***************************************************************************)
RECURSIVE Flatten(_)
Flatten(batches) ==
    IF batches = <<>> THEN <<>> ELSE Head(batches) \o Flatten(Tail(batches))

RECURSIVE Chunks(_, _)
Chunks(s, n) ==
    IF s = <<>> THEN <<>>
    ELSE IF Len(s) <= n THEN <<s>>
    ELSE <<SubSeq(s, 1, n)>> \o Chunks(SubSeq(s, n + 1, Len(s)), n)

Ceil(a, b) == (a + b - 1) \div b

Parseable(r) == r.ts.kind # "bad"

Kept(rows) == SelectSeq(rows, Parseable)

\* The failures raised inside the try block of import_all_data.
SheetFailures ==
    {"get_sensor_id: ValueError", "cast: ValueError", "execute_batch: DatabaseError"}

TryFailures == SheetFailures \cup {"ZeroDivisionError"}

InImporter == fn \in Importers /\ pc \in {"enter", "loop"}

LastCall == calls[Len(calls)]

\* The last importer call returned normally (and no later one has begun).
Returned == calls # <<>> /\ LastCall.returned

CallRows == disk.sheets[LastCall.sheet].rows

RegistryId(code) == (CHOOSE r \in AllSensors : r.sensor_code = code).sensor_id

\* The tuples a sequence of rows with good timestamps and castable cells
\* becomes in the last importer call.
Tuples(rows) ==
    [i \in 1..Len(rows) |->
        RowTuple(LastCall.fn, Ts(rows[i].ts.v), RegistryId(LastCall.sensor_code),
                 rows[i])]

NonEmptyTables == \E t \in Tables : db.tables[t] # <<>>

(***************************************************************************)
(* Batching.                                                                *)
(***************************************************************************)
\* C1: in each importer a flush fires exactly when the buffer reaches
\* batch_size rows and once more at sheet end for a non-empty remainder:
\* while the loop runs, the flushes so far number floor(kept / B), each of B
\* rows, and the buffer holds kept mod B rows (kept = rows iterated whose
\* timestamp parsed); on return the flushes number ceil((N - S) / B), all of
\* B rows but the last, which holds what is left.
C1_FlushCount ==
    LET B == args.batch_size IN
    /\ (fn \in Importers /\ pc = "loop") =>
          LET kept == Len(Kept(SubSeq(df, 1, idx))) IN
          /\ Len(flushed) = kept \div B
          /\ \A i \in 1..Len(flushed) : Len(flushed[i]) = B
          /\ Len(data) = kept % B
    /\ Returned =>
          LET N == Len(CallRows)
              S == skipped
          IN  /\ Len(flushed) = Ceil(N - S, B)
              /\ \A i \in 1..Len(flushed) :
                    Len(flushed[i]) =
                        IF i < Len(flushed) THEN B ELSE (N - S) - B * (i - 1)

\* A sheet with a skipped row whose importer returned after a full batch and
\* a smaller final one.
C1_Witness ==
    /\ Returned
    /\ skipped = 1
    /\ Len(CallRows) = 4
    /\ Len(flushed) = 2
    /\ Len(flushed[1]) = args.batch_size
    /\ Len(flushed[2]) < args.batch_size

C4_BadTimestampSkipped ==
    /\ (fn \in Importers /\ pc = "loop") =>
          LET seen == SubSeq(df, 1, idx) IN
          /\ skipped = Len(seen) - Len(Kept(seen))
          /\ Flatten(flushed) \o data = Tuples(Kept(seen))
    /\ (fn \in Importers /\ pc = "except" /\ failure = "cast: ValueError") =>
          Parseable(df[idx + 1])
    /\ Returned =>
          /\ skipped = Len(CallRows) - Len(Kept(CallRows))
          /\ flushed = Chunks(Tuples(Kept(CallRows)), args.batch_size)

\* A sheet with a bad row between good ones was imported to the end.
C4_Witness ==
    /\ Returned
    /\ Len(CallRows) >= 3
    /\ ~Parseable(CallRows[2])
    /\ Parseable(CallRows[1]) /\ Parseable(CallRows[3])
    /\ skipped = 1
    /\ Len(Flatten(flushed)) = Len(CallRows) - 1

(***************************************************************************)
(* Failure handling.                                                        *)
(***************************************************************************)
\* The run has failed inside the try block and the handler has run.
Handled == pc \in {"finally", "exit"} /\ failure \in TryFailures

IsPrefix(s, t) == Len(s) <= Len(t) /\ SubSeq(t, 1, Len(s)) = s

\* C2: every flush is committed at once, so after a failure the rows of the
\* batches flushed before it are in the tables and what the open transaction
\* held is not: outside the handler's entry the transaction holds no row;
\* once the handler has run the tables are what the last commit left, they
\* extend what the run started with, and they hold the key of every row of
\* every batch the failing importer had flushed.
C2_CommittedSurvive ==
    /\ pc # "except" => db.pending = EmptyTables
    /\ Handled =>
          /\ db.tables = lastCommitted
          /\ \A t \in Tables : IsPrefix(base[t], db.tables[t])
          /\ failure \in SheetFailures =>
                \A i \in 1..Len(flushed) : \A j \in 1..Len(flushed[i]) :
                    HasKey(db.tables[InsertTable(fn)], Key(flushed[i][j]))

\* A batch failed in the database after part of it was written, and after
\* an earlier batch of the same sheet had been committed.
C2_Witness ==
    /\ pc = "exit"
    /\ failure = "execute_batch: DatabaseError"
    /\ Len(flushed) >= 1
    /\ Len(data) >= 2
    /\ db.tables[InsertTable(fn)] = flushed[1]

\* The sheets a run has passed to read_excel when its loop stands at sheet k.
RECURSIVE MappedNames(_, _)
MappedNames(sheets, k) ==
    IF k = 0 THEN <<>>
    ELSE IF sheets[k].name \in DOMAIN SENSOR_MAPPING
         THEN Append(MappedNames(sheets, k - 1), sheets[k].name)
         ELSE MappedNames(sheets, k - 1)

\* C3: the exit status is 0 on success and 1 when the file is missing, the
\* connection fails or processing raises (a sensor code absent from the
\* registry included); an error in a sheet fails the whole run: no sheet
\* after the failing one is read or given to an importer, the transaction is
\* rolled back, and the run does not complete.
C3_ExitStatus ==
    /\ exit_status \in {-1, 0, 1}
    /\ pc = "exit" =>
          /\ exit_status \in {0, 1}
          /\ exit_status = 0 <=> failure = "none"
          /\ (exit_status = 0 /\ ~args.verify_only) => completed
    /\ (pc = "exit" /\ failure \in {"MissingFile", "ConnectError"}) =>
          exit_status = 1
    /\ (pc = "exit" /\ failure \in TryFailures) =>
          /\ exit_status = 1
          /\ ~completed
          /\ "ROLLBACK" \in issued
          /\ db.pending = EmptyTables
          /\ opened = 1
    /\ (Handled /\ failure \in SheetFailures) =>
          /\ sheet \in 1..Len(disk.sheets)
          /\ sheetsRead = MappedNames(disk.sheets, sheet)
          /\ Len(calls) = Len(sheetsRead)
          /\ LastCall.sheet = sheet
          /\ ~LastCall.returned

\* A run failed on a sensor code the registry lacks, in the first of two
\* recognized sheets.
C3_Witness ==
    /\ pc = "exit"
    /\ exit_status = 1
    /\ failure = "get_sensor_id: ValueError"
    /\ Len(disk.sheets) = 2
    /\ sheet = 1
    /\ disk.sheets[2].name \in DOMAIN SENSOR_MAPPING
    /\ sheetsRead = <<disk.sheets[1].name>>

(***************************************************************************)
(* Dispatch.                                                                *)
(***************************************************************************)
\* The importer and the destination table of each sensor type.
Registered ==
    [ty \in {"current", "environmental", "temperature"} |->
        CASE ty = "current" ->
                [fn |-> "import_current_sensor", table |-> "iot.current_readings"]
          [] ty = "environmental" ->
                [fn |-> "import_environmental_sensor",
                 table |-> "iot.environmental_readings"]
          [] OTHER ->
                [fn |-> "import_temperature_sensor",
                 table |-> "iot.temperature_readings"]]

\* The sensor type of the sensor with a registry id.
TypeOfId(id) ==
    LET code == (CHOOSE r \in AllSensors : r.sensor_id = id).sensor_code
        name == CHOOSE n \in DOMAIN SENSOR_MAPPING :
                    SENSOR_MAPPING[n].sensor_code = code
    IN  SENSOR_MAPPING[name].sensor_type

RECURSIVE SumRows(_, _)
SumRows(sheets, k) ==
    IF k = 0 THEN 0
    ELSE SumRows(sheets, k - 1) +
         (IF sheets[k].name \in DOMAIN SENSOR_MAPPING THEN Len(sheets[k].rows) ELSE 0)

\* The sheets the loop has taken up: those before its position, and the one
\* at it while that sheet's importer runs or has failed.
TakenUp ==
    IF pc \in {"enter", "loop"} \/ failure \in SheetFailures THEN sheet
    ELSE IF sheet = 0 THEN 0
    ELSE sheet - 1

\* C5: there are 11 recognized sheet names; a sheet with a recognized name is
\* given to the importer registered for its sensor's type, with its sensor
\* code, and its rows reach that type's table only; a sheet with any other
\* name is not read, not given to an importer, adds nothing to the total,
\* and is not where a run fails.
C5_Dispatch ==
    /\ Cardinality(DOMAIN SENSOR_MAPPING) = 11
    /\ \A i \in 1..Len(calls) :
          LET c == calls[i]
              name == disk.sheets[c.sheet].name
          IN  /\ name \in DOMAIN SENSOR_MAPPING
              /\ c.sheet_name = name
              /\ sheetsRead[i] = name
              /\ c.sensor_code = SENSOR_MAPPING[name].sensor_code
              /\ c.fn = Registered[SENSOR_MAPPING[name].sensor_type].fn
    /\ ~fileOpened => (calls = <<>> /\ sheetsRead = <<>>)
    /\ (fileOpened /\ disk.status = "ok" /\ sheet >= 1) =>
          /\ sheetsRead = MappedNames(disk.sheets, TakenUp)
          /\ Len(calls) = Len(sheetsRead)
          /\ total_rows = SumRows(disk.sheets, TakenUp)
    /\ \A t \in Tables : \A i \in 1..Len(db.tables[t] \o db.pending[t]) :
          Registered[TypeOfId((db.tables[t] \o db.pending[t])[i][2])].table = t
    /\ (pc = "except" /\ failure \in SheetFailures) =>
          disk.sheets[sheet].name \in DOMAIN SENSOR_MAPPING

\* The import of a file with an unrecognized sheet before an environmental
\* one completed, with rows of the second in its table.
C5_Witness ==
    /\ pc = "exit"
    /\ exit_status = 0
    /\ completed
    /\ Len(disk.sheets) = 2
    /\ disk.sheets[1].name = UnknownName
    /\ disk.sheets[1].rows # <<>>
    /\ disk.sheets[2].name = "Sensor s1"
    /\ db.tables["iot.environmental_readings"] # <<>>
    /\ total_rows = Len(disk.sheets[2].rows)
    /\ sheetsRead = <<"Sensor s1">>

(***************************************************************************)
(* Re-import and verification.                                              *)
(***************************************************************************)
\* C6: with uniqueness on (time, sensor_id) enforced, importing a file again
\* after an invocation that imported it completely adds no row: throughout
\* the later import every table holds what it held when the import began.
C6_ReimportAddsNothing ==
    (importedBefore /\ ~args.verify_only) =>
        (db.tables = base /\ db.pending = EmptyTables)

\* A second import of a file whose first import completed has itself
\* completed, flushing a batch into a table that holds rows.
C6_Witness ==
    /\ importedBefore
    /\ ~args.verify_only
    /\ pc = "exit"
    /\ exit_status = 0
    /\ completed
    /\ flushed # <<>>
    /\ NonEmptyTables

Range(s) == {s[i] : i \in 1..Len(s)}

\* C7: a run with --verify-only never opens the input file or calls an
\* importer, sends the database nothing but the four count queries, and
\* leaves the tables as they were; when it ends with status 0 it has sent
\* all four and fetched the four counts.
C7_VerifyOnlyReadOnly ==
    args.verify_only =>
        /\ ~fileOpened
        /\ calls = <<>>
        /\ sheetsRead = <<>>
        /\ issued \subseteq Range(CountQueries)
        /\ db.tables = base
        /\ db.pending = EmptyTables
        /\ pc \notin {"check_file", "connect", "sheets", "enter", "loop", "summary",
                      "except", "finally"}
        /\ (pc = "exit" /\ exit_status = 0) =>
              /\ issued = Range(CountQueries)
              /\ report = [i \in 1..4 |-> CountResult(sensors, db, i)]

\* A --verify-only run on a database that an earlier import filled ended
\* with status 0.
C7_Witness ==
    /\ args.verify_only
    /\ run = 2
    /\ pc = "exit"
    /\ exit_status = 0
    /\ NonEmptyTables
    /\ report[1] = Cardinality(sensors)

(***************************************************************************)
(* The connection.                                                          *)
(***************************************************************************)
\* C8 as stated: a run opens the connection once, and no run ends with an
\* opened connection left unclosed.
C8_Original ==
    /\ opened <= 1
    /\ pc = "exit" => connOpen = 0

\* C8 amended: import_all_data opens one connection and closes it on every
\* path, so at most one connection is open at a time and none is open once
\* import_all_data is left; a run whose import completes opens a second
\* connection for verify_import, so a run opens at most two and a
\* --verify-only run one; the connection of verify_import is closed when
\* verify_import returns, and is the only one a run can end with open, when
\* verify_import raises.
C8_ConnectionLifecycle ==
    /\ connOpen \in {0, 1}
    /\ opened <= 2
    /\ args.verify_only => opened <= 1
    /\ opened = 2 => completed
    /\ pc \in {"sheets", "enter", "loop", "summary", "except", "finally"} =>
          (connOpen = 1 /\ opened = 1)
    /\ pc = "verify_connect" => connOpen = 0
    /\ pc \in {"verify", "main_close"} => connOpen = 1
    /\ pc = "exit" =>
          (connOpen = 1 <=> failure = "verify_import: DatabaseError")

\* An import that completed went on to verify_import on a second
\* connection, which a failing count query left open at the exit.
C8_Witness ==
    /\ pc = "exit"
    /\ opened = 2
    /\ connOpen = 1
    /\ completed
    /\ exit_status = 1

(***************************************************************************)
(* Casting.                                                                 *)
(***************************************************************************)
\* The tuple built from the row the loop took last, when it built one.
LastTuple ==
    IF data # <<>> THEN data[Len(data)]
    ELSE flushed[Len(flushed)][Len(flushed[Len(flushed)])]

\* The declared numeric type of each column of each sensor type.
Declared ==
    [ty \in {"current", "environmental", "temperature"} |->
        CASE ty = "current" -> <<"float", "float", "float", "float", "float">>
          [] ty = "environmental" ->
                <<"int", "int", "int", "int", "int", "float", "int">>
          [] OTHER -> <<"int", "float", "int">>]

Truncated(x) == IF x >= 0 THEN x - (x % 10) ELSE x + ((0 - x) % 10)

\* C9: in each importer, a numeric cell of a non-skipped row that is empty
\* or not a number gives an absent field at its place in the tuple, not a
\* zero and not an error, and the row's other numeric cells are cast to the
\* column's type: an integer column truncates, a float column keeps the
\* value; a cast error comes from a cell that holds text.
C9_NaNBecomesNone ==
    /\ (fn \in Importers /\ pc = "loop" /\ idx >= 1 /\ Parseable(df[idx])) =>
          LET ty == SENSOR_MAPPING[LastCall.sheet_name].sensor_type
              tuple == LastTuple
          IN  /\ Len(tuple) = 2 + Len(Declared[ty])
              /\ tuple[1] = df[idx].ts.v
              /\ tuple[2] = RegistryId(LastCall.sensor_code)
              /\ \A i \in 1..Len(Declared[ty]) :
                    LET cell == df[idx].cells[i]
                        field == tuple[i + 2]
                    IN  /\ cell = NaN => (field = None /\ field # py_int(Num(0))
                                            /\ field # py_float(Num(0)))
                        /\ cell.kind = "num" =>
                              /\ field.kind = Declared[ty][i]
                              /\ field.v = IF Declared[ty][i] = "int"
                                           THEN Truncated(cell.v) ELSE cell.v
    /\ (fn \in Importers /\ pc = "except" /\ failure = "cast: ValueError") =>
          \E i \in 1..Len(df[idx + 1].cells) : df[idx + 1].cells[i] = Text

\* A row with one empty cell among numbers, one of them a zero, was turned
\* into a tuple.
C9_Witness ==
    /\ fn = "import_environmental_sensor"
    /\ pc = "loop"
    /\ idx = 1
    /\ Parseable(df[1])
    /\ df[1].cells[6] = NaN
    /\ df[1].cells[1] = Num(0 - 15)
    /\ LastTuple[8] = None
    /\ LastTuple[3] = py_int(Num(0 - 10))

====
